---- MODULE Spec2Model ----
(***************************************************************************)
(* A model of the api-router package: EndPoints.validate,                   *)
(* NewEnvironmentRouter, the URL getters and AddRouterModifier of Router   *)
(* (router.go), and the LatencyCheckModifier                               *)
(* (latency_modifier.go): its construction, its probe rounds (five         *)
(* headRequest workers joined by a WaitGroup, then the aggregation under   *)
(* the write lock), its ticker-driven background goroutine and             *)
(* StopPingingEndpoints.                                                   *)
(*                                                                         *)
(* Durations are counted in abstract units.  time.Hour, the sentinel a     *)
(* failed probe is recorded with, lies above every latency a successful    *)
(* probe can measure: each request is cut by the round's context deadline  *)
(* (l.Client.Timeout, one second for the default client).                  *)
(***************************************************************************)
EXTENDS Integers, Sequences, FiniteSets, TLC

VARIABLES
    phase,       \* position of the calling goroutine
    input,       \* the EndPoints value handed to NewEnvironmentRouter
    env,         \* the AWS_REGION environment variable
    router,      \* the *Router returned (NilRouter when none)
    err,         \* the error returned by NewEnvironmentRouter
    added,       \* history: the first and the last modifier AddRouterModifier was given
    PingInterval,\* LatencyCheckModifier.PingInterval
    fastestURL,  \* LatencyCheckModifier.fastestURL
    stopTicker,  \* LatencyCheckModifier.stopTicker: a channel of capacity 1
    ticker,      \* the time.Ticker of periodicallyPingEndpoints
    bg,          \* position of the goroutine started by periodicallyPingEndpoints
    roundBy,     \* who is inside findLowLatencyEndpoint: "none", "ctor" or "bg"
    worker,      \* position of each headRequest goroutine of the round
    results,     \* the results channel of the round, in send order
    panic,       \* the runtime panic that ended the process ("" when none)
    stopCalls,   \* number of StopPingingEndpoints calls made so far
    probe,       \* history: what each worker of the round in flight met
    last,        \* history: summary of the last completed round
    latency,     \* the *Latency of the preset revision, its goroutines and history
    mu,          \* l.mu of a LatencyCheckModifier, its holders and the callers of GetEndpoint
    earliest     \* the *Latency of the earliest revision, its mutex and its goroutines

vars == <<phase, input, env, router, err, added, PingInterval, fastestURL, stopTicker,
          ticker, bg, roundBy, worker, results, panic, stopCalls, probe, last,
          latency, mu, earliest>>

routerVars == <<phase, input, env, router, err, added>>
modifierVars == <<PingInterval, fastestURL, stopTicker, ticker, bg, roundBy,
                  worker, results, panic, stopCalls, probe, last>>

-----------------------------------------------------------------------------
(* Bounds of the model *)

\* Largest latency, in units, a successful probe measures.
MaxLatency == 2
\* StopPingingEndpoints is called at most this many times.
MaxStops == 2
\* Completed rounds are counted up to this number.
MaxRounds == 2

-----------------------------------------------------------------------------
(* Strings and URLs *)

Nil == "nil"

\* The nil *Router.
NilRouter == [nil |-> TRUE]

\* Errors of part_002 (errors.go) and the error url.Parse returns.
ErrAtLeastOne == "ErrAtLeastOne"
ErrFallbackUnset == "ErrFallbackUnset"
ErrMissingProtocol == "ErrMissingProtocol"
ErrURLParse == "url parsing error"

\* Strings url.Parse rejects: a leading colon ("missing protocol scheme").
UnparseableURLs == {":", "://apac.foobar.com"}

\* Strings url.Parse accepts with an empty Scheme (they parse as a path).
SchemelessURLs == {"x", "eu.foobar.com", "fallback.foobar.com"}

HttpsURLs == {"https://apac.foobar.com", "https://eu.foobar.com",
              "https://universal.foobar.com", "https://us-east.foobar.com",
              "https://us-west.foobar.com", "https://fallback.foobar.com"}

HttpURLs == {"http://foobar.com?region=closest"}

\* url.Parse: whether it fails, and the Scheme of the URL it returns.
urlParse(s) ==
    [err |-> s \in UnparseableURLs,
     Scheme |-> IF s \in HttpsURLs THEN "https"
                ELSE IF s \in HttpURLs THEN "http" ELSE ""]

\* strings.ToLower on the region identifiers of the model.
ToLower(s) ==
    CASE s = "US-EAST-1" -> "us-east-1"
      [] s = "Us-East-2" -> "us-east-2"
      [] s = "EU-Central-1" -> "eu-central-1"
      [] OTHER -> s

-----------------------------------------------------------------------------
(* router.go: EndPoints *)

\* The fields of EndPoints in declaration order, the order reflection visits.
FieldOrder == <<"AsiaPacific", "Europe", "Universal", "USEast", "USWest",
                "Fallback", "ClosestURL">>

EndPoints(ap, eu, un, ue, uw, fb, cl) ==
    [AsiaPacific |-> ap, Europe |-> eu, Universal |-> un, USEast |-> ue,
     USWest |-> uw, Fallback |-> fb, ClosestURL |-> cl]

\* The loop of validate from field i on; atLeastOne counts the fields visited
\* so far that are longer than one character and parse with a scheme.
RECURSIVE validateFields(_, _, _)
validateFields(e, i, atLeastOne) ==
    IF i > Len(FieldOrder)
    THEN [err |-> Nil, atLeastOne |-> atLeastOne]
    ELSE LET endpoint == e[FieldOrder[i]] IN
         IF Len(endpoint) > 1
         THEN IF urlParse(endpoint).err
              THEN [err |-> ErrURLParse, atLeastOne |-> atLeastOne]
              ELSE IF Len(urlParse(endpoint).Scheme) = 0
              THEN [err |-> ErrMissingProtocol, atLeastOne |-> atLeastOne]
              ELSE validateFields(e, i + 1, atLeastOne + 1)
         ELSE validateFields(e, i + 1, atLeastOne)

\* validate without its atLeastOne == 0 test (a faulty variant).
validateNoCount(e) ==
    LET r == validateFields(e, 1, 0)
        f == IF r.atLeastOne = 1 /\ Len(e.Universal) > 0
             THEN [e EXCEPT !.Fallback = e.Universal] ELSE e
    IN  IF r.err # Nil THEN r.err
        ELSE IF Len(f.Fallback) = 0 THEN ErrFallbackUnset
        ELSE Nil

\* validate without its Fallback test (a faulty variant).
validateNoFallback(e) ==
    LET r == validateFields(e, 1, 0)
    IN  IF r.err # Nil THEN r.err
        ELSE IF r.atLeastOne = 0 THEN ErrAtLeastOne
        ELSE Nil

\* EndPoints.validate.  The receiver is a value: the Fallback it derives from
\* Universal is set on its own copy f, and only the error is returned.
validate(e) ==
    LET r == validateFields(e, 1, 0)
        f == IF r.atLeastOne = 1 /\ Len(e.Universal) > 0
             THEN [e EXCEPT !.Fallback = e.Universal] ELSE e
    IN  IF r.err # Nil THEN r.err
        ELSE IF r.atLeastOne = 0 THEN ErrAtLeastOne
        ELSE IF Len(f.Fallback) = 0 THEN ErrFallbackUnset
        ELSE Nil

\* The region switch assigning ClosestURL only when the caller left it empty
\* (a faulty variant).
regionOverrideIfUnset(endpoints, region) ==
    IF Len(region) > 0 /\ Len(endpoints.ClosestURL) = 0
    THEN CASE region \in {"us-east-1", "us-east-2"} ->
                [endpoints EXCEPT !.ClosestURL = endpoints.USEast]
           [] region \in {"us-west-1", "us-west-2"} ->
                [endpoints EXCEPT !.ClosestURL = endpoints.USWest]
           [] region \in {"ap-south-1", "  ap-southeast-1", "ap-southeast-2"} ->
                [endpoints EXCEPT !.ClosestURL = endpoints.AsiaPacific]
           [] region = "eu-central-1" ->
                [endpoints EXCEPT !.ClosestURL = endpoints.Europe]
           [] OTHER -> endpoints
    ELSE endpoints

\* The region switch with a default case that falls back to Universal (a
\* faulty variant).
regionOverrideWithDefault(endpoints, region) ==
    IF Len(region) > 0
    THEN CASE region \in {"us-east-1", "us-east-2"} ->
                [endpoints EXCEPT !.ClosestURL = endpoints.USEast]
           [] region \in {"us-west-1", "us-west-2"} ->
                [endpoints EXCEPT !.ClosestURL = endpoints.USWest]
           [] region \in {"ap-south-1", "  ap-southeast-1", "ap-southeast-2"} ->
                [endpoints EXCEPT !.ClosestURL = endpoints.AsiaPacific]
           [] region = "eu-central-1" ->
                [endpoints EXCEPT !.ClosestURL = endpoints.Europe]
           [] OTHER -> [endpoints EXCEPT !.ClosestURL = endpoints.Universal]
    ELSE endpoints

\* The region switch of NewEnvironmentRouter.
regionOverride(endpoints, region) ==
    IF Len(region) > 0
    THEN CASE region \in {"us-east-1", "us-east-2"} ->
                [endpoints EXCEPT !.ClosestURL = endpoints.USEast]
           [] region \in {"us-west-1", "us-west-2"} ->
                [endpoints EXCEPT !.ClosestURL = endpoints.USWest]
           [] region \in {"ap-south-1", "  ap-southeast-1", "ap-southeast-2"} ->
                [endpoints EXCEPT !.ClosestURL = endpoints.AsiaPacific]
           [] region = "eu-central-1" ->
                [endpoints EXCEPT !.ClosestURL = endpoints.Europe]
           [] OTHER -> endpoints
    ELSE endpoints

\* NewEnvironmentRouter returning the router it would build along with the
\* error of validate (a faulty variant).
NewEnvironmentRouterPartial(endpoints, awsRegion) ==
    /\ phase = "start"
    /\ input' = endpoints
    /\ env' = awsRegion
    /\ router' = [AWSRegion |-> ToLower(awsRegion),
                  EndPoints |-> regionOverride(endpoints, ToLower(awsRegion)),
                  routerModifier |-> Nil]
    /\ err' = validate(endpoints)
    /\ phase' = IF validate(endpoints) # Nil THEN "failed" ELSE "router"
    /\ UNCHANGED <<added, latency, mu, earliest, modifierVars>>

\* NewEnvironmentRouter over a validate with a pointer receiver, whose
\* Fallback derived from Universal reaches the caller's value (a faulty
\* variant).
NewEnvironmentRouterPointerReceiver(endpoints, awsRegion) ==
    /\ phase = "start"
    /\ input' = endpoints
    /\ env' = awsRegion
    /\ IF validate(endpoints) # Nil
       THEN /\ router' = NilRouter
            /\ err' = validate(endpoints)
            /\ phase' = "failed"
       ELSE /\ router' = [AWSRegion |-> ToLower(awsRegion),
                          EndPoints |->
                              regionOverride(
                                  IF validateFields(endpoints, 1, 0).atLeastOne = 1
                                         /\ Len(endpoints.Universal) > 0
                                  THEN [endpoints EXCEPT !.Fallback = endpoints.Universal]
                                  ELSE endpoints,
                                  ToLower(awsRegion)),
                          routerModifier |-> Nil]
            /\ err' = Nil
            /\ phase' = "router"
    /\ UNCHANGED <<added, latency, mu, earliest, modifierVars>>

\* NewEnvironmentRouter(endpoints) with AWS_REGION = awsRegion.
NewEnvironmentRouter(endpoints, awsRegion) ==
    /\ phase = "start"
    /\ input' = endpoints
    /\ env' = awsRegion
    /\ IF validate(endpoints) # Nil
       THEN /\ router' = NilRouter
            /\ err' = validate(endpoints)
            /\ phase' = "failed"
       ELSE /\ router' = [AWSRegion |-> ToLower(awsRegion),
                          EndPoints |-> regionOverride(endpoints, ToLower(awsRegion)),
                          routerModifier |-> Nil]
            /\ err' = Nil
            /\ phase' = "router"
    /\ UNCHANGED <<added, latency, mu, earliest, modifierVars>>

\* The field of EndPoints the case of the region switch that lists region
\* reads ("" for a region no case lists).
regionField(region) ==
    CASE region \in {"us-east-1", "us-east-2"} -> "USEast"
      [] region \in {"us-west-1", "us-west-2"} -> "USWest"
      [] region \in {"ap-south-1", "  ap-southeast-1", "ap-southeast-2"} -> "AsiaPacific"
      [] region = "eu-central-1" -> "Europe"
      [] OTHER -> ""

\* GetRouterURL trying Fallback before Universal (a faulty variant).
GetRouterURLFallbackFirst ==
    IF Len(router.EndPoints.ClosestURL) # 0 THEN router.EndPoints.ClosestURL
    ELSE IF Len(router.EndPoints.Fallback) # 0 THEN router.EndPoints.Fallback
    ELSE IF Len(router.EndPoints.Universal) # 0 THEN router.EndPoints.Universal
    ELSE ""

\* Router.GetRouterURL.
GetRouterURL ==
    IF Len(router.EndPoints.ClosestURL) # 0 THEN router.EndPoints.ClosestURL
    ELSE IF Len(router.EndPoints.Universal) # 0 THEN router.EndPoints.Universal
    ELSE IF Len(router.EndPoints.Fallback) # 0 THEN router.EndPoints.Fallback
    ELSE ""

-----------------------------------------------------------------------------
(* latency_modifier.go: LatencyCheckModifier *)

\* time.Hour, the Duration of a failed probe and of the initial `fastest`.
Hour == MaxLatency + 1

\* defaultPingInterval.
defaultPingInterval == Hour

\* The endpoints slice of findLowLatencyEndpoint, in its order.
Candidates == <<"Universal", "USEast", "USWest", "Europe", "AsiaPacific">>

Workers == 1 .. Len(Candidates)

\* The URL of worker i with Fallback standing in for an empty field (a faulty
\* variant).
candidateURLOrFallback(i) ==
    IF router.EndPoints[Candidates[i]] = "" THEN router.EndPoints.Fallback
    ELSE router.EndPoints[Candidates[i]]

\* The URL worker i is started with (the modifier reads the router's EndPoints
\* through the pointer it was given).
candidateURL(i) == router.EndPoints[Candidates[i]]

\* Status codes a server answers a HEAD request with.
StatusOK == 200
Statuses == {200, 204, 500}

\* A latencyResult recording the URL the response came from after redirects
\* instead of the candidate's (a faulty variant).
latencyResultResolved(url, duration) ==
    [URL |-> IF url = "" THEN "" ELSE "https://resolved.foobar.com",
     Duration |-> duration]

latencyResult(url, duration) == [URL |-> url, Duration |-> duration]

NoProbe == [kind |-> "none", status |-> 0, elapsed |-> 0]
NoRound == [n |-> 0, won |-> FALSE]

\* What a worker can meet once its request is built: a transport error, or a
\* response with a status; elapsed is the time.Since(start) the worker takes
\* on StatusOK.  A URL without a scheme is refused by the transport.
Outcomes(endpoint) ==
    {[kind |-> "neterr", status |-> 0, elapsed |-> 0]} \cup
    (IF Len(urlParse(endpoint).Scheme) = 0 THEN {}
     ELSE {[kind |-> "response", status |-> s, elapsed |-> 0] :
              s \in Statuses \ {StatusOK}} \cup
          {[kind |-> "response", status |-> StatusOK, elapsed |-> d] :
              d \in 1 .. MaxLatency})

\* The seed of NewLatencyCheckerModifier without its Fallback branch (a
\* faulty variant).
seedNoFallback(endpoints) ==
    IF Len(endpoints.ClosestURL) # 0 THEN endpoints.ClosestURL
    ELSE IF Len(endpoints.Universal) # 0 THEN endpoints.Universal
    ELSE ""

\* The seed of NewLatencyCheckerModifier preferring Universal to ClosestURL
\* (a faulty variant).
seedUniversalFirst(endpoints) ==
    IF Len(endpoints.Universal) # 0 THEN endpoints.Universal
    ELSE IF Len(endpoints.ClosestURL) # 0 THEN endpoints.ClosestURL
    ELSE IF Len(endpoints.Fallback) # 0 THEN endpoints.Fallback
    ELSE ""

\* The initial fastestURL of NewLatencyCheckerModifier.
seed(endpoints) ==
    IF Len(endpoints.ClosestURL) # 0 THEN endpoints.ClosestURL
    ELSE IF Len(endpoints.Universal) # 0 THEN endpoints.Universal
    ELSE IF Len(endpoints.Fallback) # 0 THEN endpoints.Fallback
    ELSE ""

\* The range loop of findLowLatencyEndpoint over the closed results channel.
RECURSIVE fastestOf(_, _, _)
fastestOf(res, i, fastest) ==
    IF i > Len(res) THEN fastest
    ELSE fastestOf(res, i + 1,
                   IF res[i].Duration < fastest.Duration THEN res[i] ELSE fastest)

\* selectFastest without the len(fastest.URL) == 0 return (a faulty variant).
selectFastestNoGuard(res, current) ==
    fastestOf(res, 1, latencyResult("", Hour)).URL

\* selectFastest keeping the first result below the sentinel instead of the
\* smallest (a faulty variant).
RECURSIVE firstOf(_, _)
firstOf(res, i) ==
    IF i > Len(res) THEN latencyResult("", Hour)
    ELSE IF res[i].Duration < Hour THEN res[i] ELSE firstOf(res, i + 1)

selectFirst(res, current) ==
    IF Len(firstOf(res, 1).URL) = 0 THEN current ELSE firstOf(res, 1).URL

\* The locked section of findLowLatencyEndpoint: the value of fastestURL after
\* it, from the results of the round and the current value.
selectFastest(res, current) ==
    LET fastest == fastestOf(res, 1, latencyResult("", Hour))
    IN  IF Len(fastest.URL) = 0 THEN current ELSE fastest.URL

\* LatencyCheckModifier.GetEndpoint: the value read under the read lock.
GetEndpoint == fastestURL

\* History: the URLs of the candidates that answered StatusOK in the least
\* elapsed time of the round described by p.
BestURLs(p) ==
    LET ok == {i \in Workers : p[i].kind = "response" /\ p[i].status = StatusOK}
    IN  {candidateURL(i) : i \in {j \in ok : \A k \in ok : p[j].elapsed <= p[k].elapsed}}

\* The head of findLowLatencyEndpoint: the five workers are started.
launch(who) ==
    /\ roundBy' = who
    /\ worker' = [i \in Workers |-> "running"]
    /\ results' = <<>>
    /\ probe' = [i \in Workers |-> NoProbe]

\* The tail of findLowLatencyEndpoint without wg.Wait(): the results sent so
\* far are drained while workers still run (a faulty variant).
aggregateNoWait ==
    /\ fastestURL' = selectFastest(results, fastestURL)
    /\ results' = <<>>
    /\ roundBy' = "none"
    /\ worker' = [i \in Workers |-> "idle"]
    /\ probe' = [i \in Workers |-> NoProbe]
    /\ last' = [n |-> IF last.n < MaxRounds THEN last.n + 1 ELSE last.n,
                won |-> BestURLs(probe) # {}]

\* The tail of findLowLatencyEndpoint, past wg.Wait(): the results are
\* drained and fastestURL is written under the lock.
aggregate ==
    /\ \A i \in Workers : worker[i] = "done"
    /\ fastestURL' = selectFastest(results, fastestURL)
    /\ results' = <<>>
    /\ roundBy' = "none"
    /\ worker' = [i \in Workers |-> "idle"]
    /\ probe' = [i \in Workers |-> NoProbe]
    /\ last' = [n |-> IF last.n < MaxRounds THEN last.n + 1 ELSE last.n,
                won |-> BestURLs(probe) # {}]

\* NewLatencyCheckerModifier returning at once and leaving its first round to
\* the goroutine, as with go l.periodicallyPingEndpoints() (a faulty variant).
NewLatencyCheckerModifierAsync(interval) ==
    /\ phase = "router"
    /\ panic = ""
    /\ phase' = "ready"
    /\ PingInterval' = interval
    /\ fastestURL' = seed(router.EndPoints)
    /\ stopTicker' = [len |-> 0, closed |-> FALSE]
    /\ bg' = "round"
    /\ launch("bg")
    /\ UNCHANGED <<input, env, router, err, added, latency, mu, earliest, ticker, panic,
                   stopCalls, last>>

\* NewLatencyCheckerModifier(&r.EndPoints, WithCustomPingInterval(interval)),
\* up to the start of the first round inside periodicallyPingEndpoints.
NewLatencyCheckerModifier(interval) ==
    /\ phase = "router"
    /\ panic = ""
    /\ phase' = "constructing"
    /\ PingInterval' = interval
    /\ fastestURL' = seed(router.EndPoints)
    /\ stopTicker' = [len |-> 0, closed |-> FALSE]
    /\ launch("ctor")
    /\ UNCHANGED <<input, env, router, err, added, latency, mu, earliest,
                   ticker, bg, panic, stopCalls,
                   last>>

\* headRequest returning without wg.Done() when the request cannot be built
\* (a faulty variant).
headRequestNoDone(i) ==
    /\ panic = ""
    /\ worker[i] = "running"
    /\ LET endpoint == candidateURL(i) IN
       IF Len(endpoint) = 0
       THEN /\ results' = Append(results, latencyResult(endpoint, Hour))
            /\ probe' = [probe EXCEPT ![i].kind = "empty"]
            /\ worker' = [worker EXCEPT ![i] = "done"]
       ELSE IF urlParse(endpoint).err
       THEN /\ results' = results
            /\ probe' = [probe EXCEPT ![i].kind = "norequest"]
            /\ worker' = [worker EXCEPT ![i] = "returned"]
       ELSE \E o \in Outcomes(endpoint) :
            /\ probe' = [probe EXCEPT ![i] = o]
            /\ worker' = [worker EXCEPT ![i] = "done"]
            /\ results' = Append(results,
                  IF o.kind = "neterr" THEN latencyResult(endpoint, Hour)
                  ELSE IF o.status # StatusOK THEN latencyResult(endpoint, Hour)
                  ELSE latencyResult(endpoint, o.elapsed))
    /\ UNCHANGED <<routerVars, latency, mu, earliest,
                   PingInterval, fastestURL, stopTicker, ticker, bg,
                   roundBy, panic, stopCalls, last>>

\* One headRequest goroutine, from its start to wg.Done().
headRequest(i) ==
    /\ panic = ""
    /\ worker[i] = "running"
    /\ worker' = [worker EXCEPT ![i] = "done"]
    /\ LET endpoint == candidateURL(i) IN
       IF Len(endpoint) = 0
       THEN /\ results' = Append(results, latencyResult(endpoint, Hour))
            /\ probe' = [probe EXCEPT ![i].kind = "empty"]
       ELSE IF urlParse(endpoint).err
       THEN /\ results' = results
            /\ probe' = [probe EXCEPT ![i].kind = "norequest"]
       ELSE \E o \in Outcomes(endpoint) :
            /\ probe' = [probe EXCEPT ![i] = o]
            /\ results' = Append(results,
                  IF o.kind = "neterr" THEN latencyResult(endpoint, Hour)
                  ELSE IF o.status # StatusOK THEN latencyResult(endpoint, Hour)
                  ELSE latencyResult(endpoint, o.elapsed))
    /\ UNCHANGED <<routerVars, latency, mu, earliest,
                   PingInterval, fastestURL, stopTicker, ticker, bg,
                   roundBy, panic, stopCalls, last>>

\* The rest of periodicallyPingEndpoints in the constructor: the first round
\* ends, the ticker is made (time.NewTicker panics on an interval <= 0), the
\* goroutine is started and the modifier is returned.
ConstructorRoundDone ==
    /\ panic = ""
    /\ roundBy = "ctor"
    /\ aggregate
    /\ IF PingInterval <= 0
       THEN /\ panic' = "non-positive interval for NewTicker"
            /\ UNCHANGED <<phase, ticker, bg>>
       ELSE /\ ticker' = [state |-> "running", C |-> 0]
            /\ bg' = "select"
            /\ phase' = "ready"
            /\ panic' = panic
    /\ UNCHANGED <<input, env, router, err, added, latency, mu, earliest,
                   PingInterval, stopTicker,
                   stopCalls>>

\* The runtime sends a tick on ticker.C (capacity 1; a tick that finds the
\* channel full is dropped).
Tick ==
    /\ panic = ""
    /\ ticker.state = "running"
    /\ ticker.C = 0
    /\ ticker' = [ticker EXCEPT !.C = 1]
    /\ UNCHANGED <<routerVars, latency, mu, earliest,
                   PingInterval, fastestURL, stopTicker, bg, roundBy,
                   worker, results, panic, stopCalls, probe, last>>

\* The tick case of the select without its call of findLowLatencyEndpoint (a
\* faulty variant).
BackgroundTickDropped ==
    /\ panic = ""
    /\ bg = "select"
    /\ ticker.C = 1
    /\ ticker' = [ticker EXCEPT !.C = 0]
    /\ UNCHANGED <<routerVars, latency, mu, earliest,
                   PingInterval, fastestURL, stopTicker, bg, roundBy,
                   worker, results, panic, stopCalls, probe, last>>

\* The tick case starting its round in a goroutine of its own, whether the
\* previous round has returned or not (a faulty variant).
BackgroundTickConcurrent ==
    /\ panic = ""
    /\ bg \in {"select", "round"}
    /\ ticker.C = 1
    /\ ticker' = [ticker EXCEPT !.C = 0]
    /\ bg' = "round"
    /\ launch("bg")
    /\ UNCHANGED <<routerVars, latency, mu, earliest, PingInterval, fastestURL, stopTicker,
                   panic, stopCalls, last>>

\* The goroutine's select takes case <-ticker.C and enters
\* findLowLatencyEndpoint.
BackgroundTick ==
    /\ panic = ""
    /\ bg = "select"
    /\ ticker.C = 1
    /\ ticker' = [ticker EXCEPT !.C = 0]
    /\ bg' = "round"
    /\ launch("bg")
    /\ UNCHANGED <<routerVars, latency, mu, earliest,
                   PingInterval, fastestURL, stopTicker, panic,
                   stopCalls, last>>

\* findLowLatencyEndpoint returns in the goroutine, which loops to its select.
BackgroundRoundDone ==
    /\ panic = ""
    /\ roundBy = "bg"
    /\ aggregate
    /\ bg' = "select"
    /\ UNCHANGED <<routerVars, latency, mu, earliest,
                   PingInterval, stopTicker, ticker, panic, stopCalls>>

\* The goroutine's select takes case <-l.stopTicker.
BackgroundStopReceive ==
    /\ panic = ""
    /\ bg = "select"
    /\ stopTicker.len = 1
    /\ stopTicker' = [stopTicker EXCEPT !.len = 0]
    /\ bg' = "stopping"
    /\ UNCHANGED <<routerVars, latency, mu, earliest,
                   PingInterval, fastestURL, ticker, roundBy, worker,
                   results, panic, stopCalls, probe, last>>

\* The stop case of the select without its ticker.Stop() (a faulty variant).
BackgroundStopCloseKeepsTicker ==
    /\ panic = ""
    /\ bg = "stopping"
    /\ stopTicker' = [stopTicker EXCEPT !.closed = TRUE]
    /\ bg' = "exited"
    /\ UNCHANGED <<routerVars, latency, mu, earliest,
                   PingInterval, fastestURL, ticker, roundBy, worker,
                   results, panic, stopCalls, probe, last>>

\* ticker.Stop(); close(l.stopTicker); return.
BackgroundStopClose ==
    /\ panic = ""
    /\ bg = "stopping"
    /\ ticker' = [ticker EXCEPT !.state = "stopped"]
    /\ stopTicker' = [stopTicker EXCEPT !.closed = TRUE]
    /\ bg' = "exited"
    /\ UNCHANGED <<routerVars, latency, mu, earliest,
                   PingInterval, fastestURL, roundBy, worker, results,
                   panic, stopCalls, probe, last>>

\* StopPingingEndpoints putting the seed back into fastestURL (a faulty
\* variant).
StopPingingEndpointsReset ==
    /\ panic = ""
    /\ phase = "ready"
    /\ stopCalls < MaxStops
    /\ stopCalls' = stopCalls + 1
    /\ fastestURL' = seed(router.EndPoints)
    /\ IF stopTicker.closed
       THEN /\ panic' = "send on closed channel"
            /\ stopTicker' = stopTicker
       ELSE IF stopTicker.len = 0
       THEN /\ stopTicker' = [stopTicker EXCEPT !.len = 1]
            /\ panic' = panic
       ELSE /\ stopTicker' = stopTicker
            /\ panic' = panic
    /\ UNCHANGED <<routerVars, latency, mu, earliest,
                   PingInterval, ticker, bg, roundBy,
                   worker, results, probe, last>>

\* LatencyCheckModifier.StopPingingEndpoints: a select with a send case and a
\* default.  A send on a closed channel panics, inside a select too.
StopPingingEndpoints ==
    /\ panic = ""
    /\ phase = "ready"
    /\ stopCalls < MaxStops
    /\ stopCalls' = stopCalls + 1
    /\ IF stopTicker.closed
       THEN /\ panic' = "send on closed channel"
            /\ stopTicker' = stopTicker
       ELSE IF stopTicker.len = 0
       THEN /\ stopTicker' = [stopTicker EXCEPT !.len = 1]
            /\ panic' = panic
       ELSE /\ stopTicker' = stopTicker
            /\ panic' = panic
    /\ UNCHANGED <<routerVars, latency, mu, earliest,
                   PingInterval, fastestURL, ticker, bg, roundBy,
                   worker, results, probe, last>>

-----------------------------------------------------------------------------
(* router.go: the modifier of a Router *)

\* The modifiers a caller hands to AddRouterModifier: "l", the
\* LatencyCheckModifier of this model, and "unseeded", one that
\* NewLatencyCheckerModifier built over an EndPoints with no field set.
Modifiers == {"l", "unseeded"}

\* GetEndpoint of modifier m.  Over an EndPoints with no field set the seed is
\* empty and every worker of every round reports time.Hour for the empty URL.
modifierEndpoint(m) ==
    IF m = "l" THEN GetEndpoint
    ELSE selectFastest([i \in Workers |-> latencyResult("", Hour)],
                       seed(EndPoints("", "", "", "", "", "", "")))

\* GetModifierURL without its len(endpoint) == 0 test (a faulty variant).
GetModifierURLNoFallback ==
    IF router.routerModifier # Nil
    THEN modifierEndpoint(router.routerModifier)
    ELSE GetRouterURL

\* GetModifierURL never asking the modifier (a faulty variant).
GetModifierURLRouterOnly == GetRouterURL

\* Router.GetModifierURL.
GetModifierURL ==
    IF router.routerModifier # Nil
    THEN LET endpoint == modifierEndpoint(router.routerModifier)
         IN  IF Len(endpoint) = 0 THEN GetRouterURL ELSE endpoint
    ELSE GetRouterURL

\* AddRouterModifier without its nil test (a faulty variant).
AddRouterModifierOverwrite(routerModifier) ==
    /\ panic = ""
    /\ phase \in {"router", "ready"}
    /\ routerModifier = "l" => phase = "ready"
    /\ router' = [router EXCEPT !.routerModifier = routerModifier]
    /\ added' = [first |-> IF added.first = Nil THEN routerModifier ELSE added.first,
                 last |-> routerModifier]
    /\ UNCHANGED <<phase, input, env, err, latency, mu, earliest, modifierVars>>

\* Router.AddRouterModifier(routerModifier), called by the goroutine that
\* owns the router; l can be handed over once its constructor has returned.
AddRouterModifier(routerModifier) ==
    /\ panic = ""
    /\ phase \in {"router", "ready"}
    /\ routerModifier = "l" => phase = "ready"
    /\ router' = IF router.routerModifier = Nil
                 THEN [router EXCEPT !.routerModifier = routerModifier]
                 ELSE router
    /\ added' = [first |-> IF added.first = Nil THEN routerModifier ELSE added.first,
                 last |-> routerModifier]
    /\ UNCHANGED <<phase, input, env, err, latency, mu, earliest, modifierVars>>

-----------------------------------------------------------------------------
(* part_000: the preset revision, Latency and NewLatencyRouter *)

\* EndPoints of this revision: its seventh field is FastestURL.
LatencyEndPoints(ap, eu, un, ue, uw, fb, fu) ==
    [AsiaPacific |-> ap, Europe |-> eu, Universal |-> un, USEast |-> ue,
     USWest |-> uw, Fallback |-> fb, FastestURL |-> fu]

\* EndPoints.validate of this revision: the loop and the tests of validate
\* over the seven fields; what it assigns (FastestURL, Fallback) it assigns to
\* its own copy.
Latency_validate(e) ==
    validate(EndPoints(e.AsiaPacific, e.Europe, e.Universal, e.USEast, e.USWest,
                       e.Fallback, e.FastestURL))

\* The region switch of NewLatencyRouter (the case labels of regionField).
Latency_regionOverride(endpoints, region) ==
    IF Len(region) > 0 /\ regionField(region) # ""
    THEN [endpoints EXCEPT !.FastestURL = endpoints[regionField(region)]]
    ELSE endpoints

\* The attempts findLowLatencyEndpoint makes on the preset URL.
PresetAttempts == 3

\* The state before NewLatencyRouter is called.
NoLatency ==
    [pos |-> "start",
     input |-> LatencyEndPoints("", "", "", "", "", "", ""),
     env |-> "",
     err |-> Nil,
     EndPoints |-> LatencyEndPoints("", "", "", "", "", "", ""),
     PingInterval |-> 0,
     preset |-> FALSE,
     shouldGuard |-> FALSE,
     stopTicker |-> 0,
     ticker |-> [state |-> "none", C |-> 0],
     bg |-> "none",
     i |-> 0,
     ch |-> <<>>,
     worker |-> [w \in Workers |-> "idle"],
     probed |-> "",
     ok |-> FALSE,
     launched |-> FALSE,
     issued |-> FALSE,
     stops |-> 0,
     rounds |-> 0]

\* Latency.GetURL.
Latency_GetURL ==
    IF Len(latency.EndPoints.FastestURL) # 0 THEN latency.EndPoints.FastestURL
    ELSE IF Len(latency.EndPoints.Universal) # 0 THEN latency.EndPoints.Universal
    ELSE IF Len(latency.EndPoints.Fallback) # 0 THEN latency.EndPoints.Fallback
    ELSE ""

\* The goroutine enters findLowLatencyEndpoint: a fresh quickestEndpointCh;
\* the history of the round (the URL the preset loop probes, whether an
\* attempt was answered with 200, whether the workers were launched) is reset.
enterRound(l) ==
    [l EXCEPT !.bg = IF l.preset THEN "attempt" ELSE "launch",
              !.i = 0,
              !.ch = <<>>,
              !.probed = l.EndPoints.FastestURL,
              !.ok = FALSE,
              !.launched = FALSE]

\* findLowLatencyEndpoint returns with FastestURL = url; workers still running
\* keep a channel nobody reads any more.  periodicallyPingEndpoints makes its
\* ticker after the first round and goes to its select.
endRound(l, url) ==
    [l EXCEPT !.EndPoints.FastestURL = url,
              !.bg = "select",
              !.ticker = IF l.ticker.state = "none"
                         THEN [state |-> "running", C |-> 0] ELSE l.ticker,
              !.i = 0,
              !.ch = <<>>,
              !.worker = [w \in Workers |-> "idle"],
              !.rounds = IF l.rounds < MaxRounds THEN l.rounds + 1 ELSE l.rounds]

\* NewLatencyRouter(endpoints, func(l) { l.PingInterval = interval }) with
\* AWS_REGION = awsRegion.
NewLatencyRouter(endpoints, awsRegion, interval) ==
    /\ latency.pos = "start"
    /\ IF Latency_validate(endpoints) # Nil
       THEN latency' = [latency EXCEPT !.pos = "failed",
                                       !.input = endpoints,
                                       !.env = awsRegion,
                                       !.err = Latency_validate(endpoints)]
       ELSE LET e == Latency_regionOverride(endpoints, ToLower(awsRegion))
                l == [latency EXCEPT !.pos = "built",
                                     !.input = endpoints,
                                     !.env = awsRegion,
                                     !.EndPoints = e,
                                     !.preset = Len(e.FastestURL) > 0,
                                     !.PingInterval = interval]
            IN  latency' = IF interval > 0
                           THEN enterRound([l EXCEPT !.shouldGuard = TRUE])
                           ELSE l
    /\ UNCHANGED <<routerVars, modifierVars, mu, earliest>>

\* What headRequestPresetEndpoint and checkResponseError make of one attempt.
PresetOutcomes(endpoint) ==
    IF Len(endpoint) = 0 THEN {"ErrNoSuchHost"}
    ELSE IF urlParse(endpoint).err \/ Len(urlParse(endpoint).Scheme) = 0
    THEN {"error"}
    ELSE {"nil", "ErrBadStatus", "ErrTimeout", "ErrConnectionReset",
          "ErrNoSuchHost", "error"}

\* One pass of the preset loop of findLowLatencyEndpoint.
Latency_headRequestPresetEndpoint ==
    /\ latency.bg = "attempt"
    /\ \E o \in PresetOutcomes(latency.EndPoints.FastestURL) :
         latency' = [latency EXCEPT
            !.issued = @ \/ Len(latency.EndPoints.FastestURL) # 0,
            !.ok = @ \/ o = "nil",
            !.ch = IF o = "nil" THEN <<latency.EndPoints.FastestURL>> ELSE @,
            !.i = IF o \in {"nil", "ErrNoSuchHost"} THEN @ ELSE @ + 1,
            !.bg = IF o \in {"nil", "ErrNoSuchHost"} \/ latency.i + 1 >= PresetAttempts
                   THEN "launch" ELSE "attempt"]
    /\ UNCHANGED <<routerVars, modifierVars, mu, earliest>>

\* The launch of the five workers whatever quickestEndpointCh holds (a faulty
\* variant).
Latency_launchAlways ==
    /\ latency.bg = "launch"
    /\ latency' = [latency EXCEPT !.worker = [w \in Workers |-> "running"],
                                  !.launched = TRUE,
                                  !.bg = "waiting"]
    /\ UNCHANGED <<routerVars, modifierVars, mu, earliest>>

\* if len(quickestEndpointCh) == 0 { go l.headRequest(...) five times }.
Latency_launch ==
    /\ latency.bg = "launch"
    /\ latency' = IF Len(latency.ch) = 0
                  THEN [latency EXCEPT !.worker = [w \in Workers |-> "running"],
                                       !.launched = TRUE,
                                       !.bg = "waiting"]
                  ELSE [latency EXCEPT !.bg = "waiting"]
    /\ UNCHANGED <<routerVars, modifierVars, mu, earliest>>

\* One headRequest goroutine of this revision: a 2xx answer is sent to
\* quickestEndpoint if the buffer has room, anything else is dropped.
Latency_headRequest(w) ==
    /\ latency.worker[w] = "running"
    /\ LET endpoint == latency.EndPoints[Candidates[w]] IN
       IF Len(endpoint) = 0 \/ urlParse(endpoint).err
       THEN latency' = [latency EXCEPT !.worker[w] = "idle"]
       ELSE \E o \in IF Len(urlParse(endpoint).Scheme) = 0 THEN {"error"}
                     ELSE {"error", "non2xx", "2xx"} :
              latency' = [latency EXCEPT
                 !.worker[w] = "idle",
                 !.issued = TRUE,
                 !.ch = IF o = "2xx" /\ Len(@) = 0 THEN <<endpoint>> ELSE @]
    /\ UNCHANGED <<routerVars, modifierVars, mu, earliest>>

\* The waiting loop takes case endpoint := <-quickestEndpointCh.
Latency_receive ==
    /\ latency.bg = "waiting"
    /\ Len(latency.ch) = 1
    /\ latency' = endRound(latency, latency.ch[1])
    /\ UNCHANGED <<routerVars, modifierVars, mu, earliest>>

\* The waiting loop takes case <-time.After(l.Client.Timeout).
Latency_timeout ==
    /\ latency.bg = "waiting"
    /\ latency' = endRound(latency, latency.EndPoints.FastestURL)
    /\ UNCHANGED <<routerVars, modifierVars, mu, earliest>>

\* The runtime sends a tick on the ticker of this revision.
Latency_Tick ==
    /\ latency.ticker = [state |-> "running", C |-> 0]
    /\ latency' = [latency EXCEPT !.ticker.C = 1]
    /\ UNCHANGED <<routerVars, modifierVars, mu, earliest>>

\* The select of periodicallyPingEndpoints takes case <-ticker.C.
Latency_periodicallyPingEndpoints ==
    /\ latency.bg = "select"
    /\ latency.ticker.C = 1
    /\ latency' = enterRound([latency EXCEPT !.ticker.C = 0])
    /\ UNCHANGED <<routerVars, modifierVars, mu, earliest>>

\* The select takes case <-l.stopTicker: ticker.Stop(); return.
Latency_stopReceive ==
    /\ latency.bg = "select"
    /\ latency.stopTicker = 1
    /\ latency' = [latency EXCEPT !.stopTicker = 0,
                                  !.ticker.state = "stopped",
                                  !.bg = "exited"]
    /\ UNCHANGED <<routerVars, modifierVars, mu, earliest>>

\* Latency.StopPingingEndpoints without its PingInterval test (a faulty
\* variant).
Latency_StopPingingEndpointsAlways ==
    /\ latency.pos = "built"
    /\ latency.stops < MaxStops
    /\ latency' = [latency EXCEPT !.stops = @ + 1, !.stopTicker = 1]
    /\ UNCHANGED <<routerVars, modifierVars, mu, earliest>>

\* Latency.StopPingingEndpoints.
Latency_StopPingingEndpoints ==
    /\ latency.pos = "built"
    /\ latency.stops < MaxStops
    /\ latency' = IF latency.PingInterval = 0
                  THEN [latency EXCEPT !.stops = @ + 1]
                  ELSE [latency EXCEPT !.stops = @ + 1, !.stopTicker = 1]
    /\ UNCHANGED <<routerVars, modifierVars, mu, earliest>>

-----------------------------------------------------------------------------
(* api-router.go, second file: the NewLatencyChecker revision *)

\* This revision differs from latency_modifier.go in its constructor and in
\* the name of its getter; findLowLatencyEndpoint, headRequest,
\* StopPingingEndpoints and periodicallyPingEndpoints are the same text, so
\* the steps after the constructor are those of the LatencyCheckModifier.

\* NewLatencyChecker(&r.EndPoints, WithCustomPingInterval(interval)), up to
\* the start of the first round: the seed is ClosestURL, empty or not.
NewLatencyChecker(interval) ==
    /\ phase = "router"
    /\ panic = ""
    /\ phase' = "constructing"
    /\ PingInterval' = interval
    /\ fastestURL' = router.EndPoints.ClosestURL
    /\ stopTicker' = [len |-> 0, closed |-> FALSE]
    /\ launch("ctor")
    /\ UNCHANGED <<input, env, router, err, added, latency, mu, earliest,
                   ticker, bg, panic, stopCalls,
                   last>>

\* Latency.GetFastestEndpoint: the value read under the read lock.
GetFastestEndpoint == fastestURL

-----------------------------------------------------------------------------
(* latency_modifier.go: l.mu, statement by statement *)

\* The goroutines that call GetEndpoint on one LatencyCheckModifier.
Callers == {"c1", "c2"}

\* The value a read of fastestURL can yield, besides the old and the new
\* string, when it runs unsynchronised with the write of line 147.
Torn == "<torn>"

\* Before NewLatencyCheckerModifier: no modifier, no caller.
NoMu ==
    [pos |-> "none", ready |-> FALSE,
     EndPoints |-> EndPoints("", "", "", "", "", "", ""),
     fastestURL |-> "", worker |-> [i \in Workers |-> "idle"], results |-> <<>>,
     writer |-> FALSE, readers |-> 0,
     caller |-> [c \in Callers |-> [pc |-> "idle", got |-> Nil]]]

\* NewLatencyCheckerModifier(endpoints) up to the wg.Wait() of its first
\* round: the seed is set and the five workers are started.
Mu_NewLatencyCheckerModifier(endpoints) ==
    /\ mu.pos = "none"
    /\ mu' = [mu EXCEPT !.pos = "probing", !.EndPoints = endpoints,
                        !.fastestURL = seed(endpoints),
                        !.worker = [i \in Workers |-> "running"]]
    /\ UNCHANGED <<routerVars, modifierVars, latency, earliest>>

\* The goroutine's case <-ticker.C: a later round starts.
Mu_Tick ==
    /\ mu.ready
    /\ mu.pos = "idle"
    /\ mu' = [mu EXCEPT !.pos = "probing", !.worker = [i \in Workers |-> "running"]]
    /\ UNCHANGED <<routerVars, modifierVars, latency, earliest>>

\* One headRequest goroutine of the round, from its start to wg.Done().
Mu_headRequest(i) ==
    /\ mu.worker[i] = "running"
    /\ LET endpoint == mu.EndPoints[Candidates[i]] IN
       \E res \in IF Len(endpoint) = 0 THEN {<<latencyResult(endpoint, Hour)>>}
                  ELSE IF urlParse(endpoint).err THEN {<<>>}
                  ELSE {<<IF o.kind = "response" /\ o.status = StatusOK
                          THEN latencyResult(endpoint, o.elapsed)
                          ELSE latencyResult(endpoint, Hour)>> : o \in Outcomes(endpoint)} :
          mu' = [mu EXCEPT !.worker[i] = "done", !.results = @ \o res]
    /\ UNCHANGED <<routerVars, modifierVars, latency, earliest>>

\* wg.Wait() returns, results is closed and l.mu.Lock() is called.
Mu_Wait ==
    /\ mu.pos = "probing"
    /\ \A i \in Workers : mu.worker[i] = "done"
    /\ mu' = [mu EXCEPT !.pos = "locking"]
    /\ UNCHANGED <<routerVars, modifierVars, latency, earliest>>

\* l.mu.Lock() returns: no reader holds the mutex any more.
Mu_Lock ==
    /\ mu.pos = "locking"
    /\ mu.readers = 0
    /\ mu' = [mu EXCEPT !.pos = "locked", !.writer = TRUE]
    /\ UNCHANGED <<routerVars, modifierVars, latency, earliest>>

\* The locked section and the deferred l.mu.Unlock(): fastestURL is written
\* and the readers blocked in RLock are let in.
Mu_Unlock ==
    /\ mu.pos = "locked"
    /\ LET blocked == {c \in Callers : mu.caller[c].pc = "blocked"} IN
       mu' = [mu EXCEPT !.pos = "idle", !.ready = TRUE, !.writer = FALSE,
                        !.fastestURL = selectFastest(mu.results, @),
                        !.results = <<>>,
                        !.worker = [i \in Workers |-> "idle"],
                        !.readers = @ + Cardinality(blocked),
                        !.caller = [c \in Callers |->
                                       IF c \in blocked
                                       THEN [mu.caller[c] EXCEPT !.pc = "holding"]
                                       ELSE mu.caller[c]]]
    /\ UNCHANGED <<routerVars, modifierVars, latency, earliest>>

\* A goroutine holding the modifier calls GetEndpoint.
Mu_GetEndpoint(c) ==
    /\ mu.ready
    /\ mu.caller[c].pc = "idle"
    /\ mu' = [mu EXCEPT !.caller[c].pc = "rlock"]
    /\ UNCHANGED <<routerVars, modifierVars, latency, earliest>>

\* l.mu.RLock() taking the mutex whatever the writer does (a faulty variant).
Mu_RLockNoWait(c) ==
    /\ mu.caller[c].pc = "rlock"
    /\ mu' = [mu EXCEPT !.readers = @ + 1, !.caller[c].pc = "holding"]
    /\ UNCHANGED <<routerVars, modifierVars, latency, earliest>>

\* l.mu.RLock(): the reader gets the mutex unless a writer holds it or waits
\* for it (sync.RWMutex: a blocked Lock excludes new readers).
Mu_RLock(c) ==
    /\ mu.caller[c].pc = "rlock"
    /\ mu' = IF mu.writer \/ mu.pos = "locking"
             THEN [mu EXCEPT !.caller[c].pc = "blocked"]
             ELSE [mu EXCEPT !.readers = @ + 1, !.caller[c].pc = "holding"]
    /\ UNCHANGED <<routerVars, modifierVars, latency, earliest>>

\* endpoint = l.fastestURL; l.mu.RUnlock(); return.  A read that runs while
\* the writer is in its locked section is a data race.
Mu_Return(c) ==
    /\ mu.caller[c].pc = "holding"
    /\ \E endpoint \in IF mu.writer
                       THEN {mu.fastestURL, selectFastest(mu.results, mu.fastestURL), Torn}
                       ELSE {mu.fastestURL} :
          mu' = [mu EXCEPT !.readers = @ - 1,
                           !.caller[c] = [pc |-> "idle", got |-> endpoint]]
    /\ UNCHANGED <<routerVars, modifierVars, latency, earliest>>

-----------------------------------------------------------------------------
(* api-router.go, first file: the earliest revision *)

\* EndPoints, validate and the region switch of this revision are those of
\* part_000 (LatencyEndPoints, Latency_validate, Latency_regionOverride).

\* A quickestEndpointCh: make(chan string, 1).
NewChan == [buf |-> <<>>, closed |-> FALSE]

\* The state before NewLatencyRouter is called.  ch[r] and worker[r] are the
\* channel and the five headRequest goroutines of round r; readers counts the
\* read locks of l.mu that are held; got is what GetURL returned last.
NoEarliest ==
    [pos |-> "none",
     err |-> Nil,
     EndPoints |-> LatencyEndPoints("", "", "", "", "", "", ""),
     preset |-> FALSE,
     updated |-> FALSE,
     readers |-> 0,
     round |-> 0,
     ch |-> [r \in 1 .. MaxRounds |-> NewChan],
     worker |-> [r \in 1 .. MaxRounds |-> [i \in Workers |-> "idle"]],
     panic |-> "",
     got |-> Nil]

\* NewLatencyRouter(client, endpoints) with AWS_REGION = awsRegion.
Earliest_NewLatencyRouter(endpoints, awsRegion) ==
    /\ earliest.pos = "none"
    /\ earliest' =
          IF Latency_validate(endpoints) # Nil
          THEN [earliest EXCEPT !.pos = "failed", !.err = Latency_validate(endpoints)]
          ELSE LET e == Latency_regionOverride(endpoints, ToLower(awsRegion))
               IN  [earliest EXCEPT !.pos = "idle", !.EndPoints = e,
                                    !.preset = Len(e.FastestURL) > 0]
    /\ UNCHANGED <<routerVars, modifierVars, latency, mu>>

\* A goroutine is blocked in l.mu.Lock(): a read lock is held and the caller
\* of findLowLatencyEndpoint or a worker is at its Lock.  (sync.RWMutex: a
\* blocked Lock keeps new readers out.)
Earliest_WriterWaits ==
    /\ earliest.readers > 0
    /\ \/ earliest.pos = "reset"
       \/ \E r \in 1 .. MaxRounds, i \in Workers : earliest.worker[r][i] = "lock"

\* Latency.GetURL: under the read lock, FastestURL or else Fallback.
Earliest_GetURL ==
    /\ earliest.panic = ""
    /\ earliest.pos \notin {"none", "failed"}
    /\ ~Earliest_WriterWaits
    /\ earliest' = [earliest EXCEPT !.got =
                       IF Len(earliest.EndPoints.FastestURL) # 0
                       THEN earliest.EndPoints.FastestURL
                       ELSE earliest.EndPoints.Fallback]
    /\ UNCHANGED <<routerVars, modifierVars, latency, mu>>

\* findLowLatencyEndpoint is called and reaches its l.mu.Lock().
Earliest_findLowLatencyEndpoint ==
    /\ earliest.panic = ""
    /\ earliest.pos = "idle"
    /\ earliest.round < MaxRounds
    /\ earliest' = [earliest EXCEPT !.pos = "reset", !.round = @ + 1]
    /\ UNCHANGED <<routerVars, modifierVars, latency, mu>>

\* l.mu.Lock() returns; updated is cleared, the mutex released and the
\* channel of the round made.
Earliest_Lock ==
    /\ earliest.panic = ""
    /\ earliest.pos = "reset"
    /\ earliest.readers = 0
    /\ earliest' = [earliest EXCEPT !.updated = FALSE,
                                    !.pos = IF earliest.preset THEN "preset" ELSE "launch"]
    /\ UNCHANGED <<routerVars, modifierVars, latency, mu>>

\* The loop over the preset URL: one of its attempts gets a 200 and FastestURL
\* is sent on the channel, or all of them fail.
Earliest_presetLoop ==
    /\ earliest.panic = ""
    /\ earliest.pos = "preset"
    /\ \E ok \in IF Len(urlParse(earliest.EndPoints.FastestURL).Scheme) = 0
                 THEN {FALSE} ELSE BOOLEAN :
          earliest' = [earliest EXCEPT
                          !.pos = "launch",
                          !.ch[earliest.round].buf =
                              IF ok THEN <<earliest.EndPoints.FastestURL>> ELSE <<>>]
    /\ UNCHANGED <<routerVars, modifierVars, latency, mu>>

\* if len(quickestEndpointCh) == 0, the five headRequest goroutines are
\* started; the one of an empty field returns at once.
Earliest_launch ==
    /\ earliest.panic = ""
    /\ earliest.pos = "launch"
    /\ earliest' =
          IF Len(earliest.ch[earliest.round].buf) = 0
          THEN [earliest EXCEPT
                   !.pos = "waiting",
                   !.worker[earliest.round] =
                       [i \in Workers |->
                           IF Len(earliest.EndPoints[Candidates[i]]) = 0
                           THEN "done" ELSE "request"]]
          ELSE [earliest EXCEPT !.pos = "waiting"]
    /\ UNCHANGED <<routerVars, modifierVars, latency, mu>>

\* case l.FastestURL = <-quickestEndpointCh, then cancel() and the deferred
\* close of the channel.
Earliest_receive ==
    /\ earliest.panic = ""
    /\ earliest.pos = "waiting"
    /\ Len(earliest.ch[earliest.round].buf) > 0
    /\ earliest' = [earliest EXCEPT
                       !.pos = "idle",
                       !.EndPoints.FastestURL = Head(earliest.ch[earliest.round].buf),
                       !.ch[earliest.round] = [buf |-> <<>>, closed |-> TRUE]]
    /\ UNCHANGED <<routerVars, modifierVars, latency, mu>>

\* case <-time.After(l.client.Timeout), then cancel() and the deferred close.
Earliest_timeout ==
    /\ earliest.panic = ""
    /\ earliest.pos = "waiting"
    /\ earliest' = [earliest EXCEPT !.pos = "idle",
                                    !.ch[earliest.round].closed = TRUE]
    /\ UNCHANGED <<routerVars, modifierVars, latency, mu>>

\* headRequest of round r for candidate i up to its status test: it returns
\* (request not built, transport error, status other than 200) or goes on.
Earliest_headRequest(r, i) ==
    /\ earliest.panic = ""
    /\ earliest.worker[r][i] = "request"
    /\ LET endpoint == earliest.EndPoints[Candidates[i]] IN
       \E next \in IF urlParse(endpoint).err \/ Len(urlParse(endpoint).Scheme) = 0
                   THEN {"done"} ELSE {"done", "rlock"} :
          earliest' = [earliest EXCEPT !.worker[r][i] = next]
    /\ UNCHANGED <<routerVars, modifierVars, latency, mu>>

\* l.mu.RLock(); if l.updated { return }; l.mu.RUnlock(): the return leaves
\* the read lock held.
Earliest_RLock(r, i) ==
    /\ earliest.panic = ""
    /\ earliest.worker[r][i] = "rlock"
    /\ ~Earliest_WriterWaits
    /\ earliest' = IF earliest.updated
                   THEN [earliest EXCEPT !.worker[r][i] = "done", !.readers = @ + 1]
                   ELSE [earliest EXCEPT !.worker[r][i] = "lock"]
    /\ UNCHANGED <<routerVars, modifierVars, latency, mu>>

\* l.mu.Lock(); l.updated = true; l.mu.Unlock().
Earliest_update(r, i) ==
    /\ earliest.panic = ""
    /\ earliest.worker[r][i] = "lock"
    /\ earliest.readers = 0
    /\ earliest' = [earliest EXCEPT !.worker[r][i] = "send", !.updated = TRUE]
    /\ UNCHANGED <<routerVars, modifierVars, latency, mu>>

\* quickestEndpoint <- endpoint: a send on the closed channel panics, a send
\* on a full one waits.
Earliest_send(r, i) ==
    /\ earliest.panic = ""
    /\ earliest.worker[r][i] = "send"
    /\ earliest.ch[r].closed \/ Len(earliest.ch[r].buf) = 0
    /\ earliest' =
          IF earliest.ch[r].closed
          THEN [earliest EXCEPT !.panic = "send on closed channel"]
          ELSE [earliest EXCEPT !.worker[r][i] = "done",
                                !.ch[r].buf = <<earliest.EndPoints[Candidates[i]]>>]
    /\ UNCHANGED <<routerVars, modifierVars, latency, mu>>

-----------------------------------------------------------------------------
(* Specifications *)

Init ==
    /\ phase = "start"
    /\ input = EndPoints("", "", "", "", "", "", "")
    /\ env = ""
    /\ router = NilRouter
    /\ err = Nil
    /\ added = [first |-> Nil, last |-> Nil]
    /\ PingInterval = 0
    /\ fastestURL = ""
    /\ stopTicker = [len |-> 0, closed |-> FALSE]
    /\ ticker = [state |-> "none", C |-> 0]
    /\ bg = "none"
    /\ roundBy = "none"
    /\ worker = [i \in Workers |-> "idle"]
    /\ results = <<>>
    /\ panic = ""
    /\ stopCalls = 0
    /\ probe = [i \in Workers |-> NoProbe]
    /\ last = NoRound
    /\ latency = NoLatency
    /\ mu = NoMu
    /\ earliest = NoEarliest

\* The EndPoints values and AWS_REGION values the selector is run on.
SelectorRuns ==
    { <<EndPoints("", "", "https://universal.foobar.com",
                  "https://us-east.foobar.com", "", "https://fallback.foobar.com", ""), "">>,
      <<EndPoints("", "", "https://universal.foobar.com",
                  "https://us-east.foobar.com", "", "https://fallback.foobar.com", ""),
        "US-EAST-1">>,
      <<EndPoints("", "", "", "", "", "https://fallback.foobar.com", ""), "us-east-1">>,
      <<EndPoints("", ":", "", "https://us-east.foobar.com", "",
                  "https://fallback.foobar.com", ""), "">>,
      <<EndPoints("", "", "https://universal.foobar.com", "", "", "", ""), "">>,
      <<EndPoints("", "", "x", "", "https://us-west.foobar.com", "", ""), "eu-west-1">>,
      <<EndPoints("https://apac.foobar.com", "", "", "", "",
                  "https://fallback.foobar.com", "http://foobar.com?region=closest"), "">>,
      <<EndPoints("", "", "", "", "", "", ""), "">>,
      <<EndPoints("", "", "", "", "https://us-west.foobar.com", "", ""), "us-west-1">> }

\* The options NewLatencyCheckerModifier is given: none (the default
\* interval) or WithCustomPingInterval(0).  Ticks arrive at any moment, so
\* every positive interval behaves as the default one.
PingIntervals == {defaultPingInterval, 0}

\* The steps of a LatencyCheckModifier and of its caller.
Lifecycle ==
    \/ \E d \in PingIntervals : NewLatencyCheckerModifier(d)
    \/ \E i \in Workers : headRequest(i)
    \/ ConstructorRoundDone
    \/ Tick
    \/ BackgroundTick
    \/ BackgroundRoundDone
    \/ BackgroundStopReceive
    \/ BackgroundStopClose
    \/ StopPingingEndpoints

Next ==
    \/ \E run \in SelectorRuns : NewEnvironmentRouter(run[1], run[2])
    \/ Lifecycle

Spec == Init /\ [][Next]_vars

\* The runs the liveness properties are checked on.
LiveRuns ==
    { <<EndPoints("", "", "https://universal.foobar.com",
                  "https://us-east.foobar.com", "", "https://fallback.foobar.com", ""), "">>,
      <<EndPoints("", ":", "", "https://us-east.foobar.com", "",
                  "https://fallback.foobar.com", ""), "">> }

NextLive ==
    \/ \E run \in LiveRuns : NewEnvironmentRouter(run[1], run[2])
    \/ Lifecycle

\* Scheduling: every started worker returns (its request is cut by the
\* deadline at the latest), a goroutine that can run does run, the running
\* ticker keeps ticking, and a select with several ready cases picks each of
\* them in the long run (it chooses among them at random).  What the caller
\* does (constructing, stopping) is under no obligation.
Fairness ==
    /\ \A i \in Workers : WF_vars(headRequest(i))
    /\ WF_vars(ConstructorRoundDone)
    /\ WF_vars(BackgroundRoundDone)
    /\ WF_vars(Tick)
    /\ SF_vars(BackgroundTick)
    /\ SF_vars(BackgroundStopReceive)
    /\ WF_vars(BackgroundStopClose)

LiveSpec == Init /\ [][NextLive]_vars /\ Fairness

\* The runs the URL getters of a router are checked on.
URLRuns ==
    { <<EndPoints("", "", "https://universal.foobar.com",
                  "https://us-east.foobar.com", "", "https://fallback.foobar.com", ""),
        "US-EAST-1">>,
      <<EndPoints("", "", "", "", "", "https://fallback.foobar.com", ""), "us-east-1">>,
      <<EndPoints("", "", "https://universal.foobar.com", "", "", "", ""), "eu-west-1">>,
      <<EndPoints("", "", "x", "", "https://us-west.foobar.com", "", ""), "us-west-2">>,
      <<EndPoints("", "", "", "", "", "", ""), "">> }

\* A router, its LatencyCheckModifier and the modifier it is given.
NextURL ==
    \/ \E run \in URLRuns : NewEnvironmentRouter(run[1], run[2])
    \/ Lifecycle
    \/ \E m \in Modifiers : AddRouterModifier(m)

SpecURL == Init /\ [][NextURL]_vars

\* The EndPoints, AWS_REGION and PingInterval values NewLatencyRouter is run
\* on; interval 0 is the one of a Latency given no PingInterval.
PresetRuns ==
    { <<LatencyEndPoints("https://apac.foobar.com", "", "https://universal.foobar.com",
                         "https://us-east.foobar.com", "", "https://fallback.foobar.com",
                         ""), region, interval>> :
          region \in {"ap-south-1", ""}, interval \in {0, 1} }
    \cup
    { <<LatencyEndPoints("", "", "https://universal.foobar.com", "", "",
                         "https://fallback.foobar.com", ""), "us-west-1", 0>>,
      <<LatencyEndPoints("", "", "", "", "", "https://fallback.foobar.com", ""),
        "US-EAST-1", 0>>,
      <<LatencyEndPoints("", "", "", "https://us-east.foobar.com", "",
                         "https://fallback.foobar.com",
                         "http://foobar.com?region=closest"), "eu-west-1", 0>>,
      <<LatencyEndPoints("", "", "", "https://us-east.foobar.com", "",
                         "https://fallback.foobar.com",
                         "http://foobar.com?region=closest"), "us-east-2", 1>>,
      <<LatencyEndPoints("", "", "", "", "", "", ""), "", 0>> }

NextPreset ==
    \/ \E run \in PresetRuns : NewLatencyRouter(run[1], run[2], run[3])
    \/ Latency_headRequestPresetEndpoint
    \/ Latency_launch
    \/ \E w \in Workers : Latency_headRequest(w)
    \/ Latency_receive
    \/ Latency_timeout
    \/ Latency_Tick
    \/ Latency_periodicallyPingEndpoints
    \/ Latency_stopReceive
    \/ Latency_StopPingingEndpoints

\* The preset revision: NewLatencyRouter, its goroutine and its caller.
SpecPreset == Init /\ [][NextPreset]_vars

\* The EndPoints values and AWS_REGION values NewLatencyChecker is run on.
CheckerRuns ==
    { <<EndPoints("", "", "https://universal.foobar.com",
                  "https://us-east.foobar.com", "", "https://fallback.foobar.com", ""), "">>,
      <<EndPoints("", "", "https://universal.foobar.com",
                  "https://us-east.foobar.com", "", "https://fallback.foobar.com", ""),
        "us-east-1">>,
      <<EndPoints("", "", "", "", "", "https://fallback.foobar.com", ""), "eu-central-1">> }

NextChecker ==
    \/ \E run \in CheckerRuns : NewEnvironmentRouter(run[1], run[2])
    \/ \E d \in PingIntervals : NewLatencyChecker(d)
    \/ \E i \in Workers : headRequest(i)
    \/ ConstructorRoundDone
    \/ Tick
    \/ BackgroundTick
    \/ BackgroundRoundDone
    \/ BackgroundStopReceive
    \/ BackgroundStopClose
    \/ StopPingingEndpoints

\* The NewLatencyChecker revision over a router's EndPoints.
SpecChecker == Init /\ [][NextChecker]_vars

\* The EndPoints values and AWS_REGION values the earliest NewLatencyRouter is
\* run on.
EarliestRuns ==
    { <<LatencyEndPoints("", "", "https://universal.foobar.com",
                         "https://us-east.foobar.com", "", "https://fallback.foobar.com",
                         ""), region>> : region \in {"", "us-east-1"} }
    \cup
    { <<LatencyEndPoints("", "", "", "", "", "", ""), "">> }

NextEarliest ==
    \/ \E run \in EarliestRuns : Earliest_NewLatencyRouter(run[1], run[2])
    \/ Earliest_GetURL
    \/ Earliest_findLowLatencyEndpoint
    \/ Earliest_Lock
    \/ Earliest_presetLoop
    \/ Earliest_launch
    \/ Earliest_receive
    \/ Earliest_timeout
    \/ \E r \in 1 .. MaxRounds, i \in Workers : Earliest_headRequest(r, i)
    \/ \E r \in 1 .. MaxRounds, i \in Workers : Earliest_RLock(r, i)
    \/ \E r \in 1 .. MaxRounds, i \in Workers : Earliest_update(r, i)
    \/ \E r \in 1 .. MaxRounds, i \in Workers : Earliest_send(r, i)

\* The earliest revision: NewLatencyRouter, the rounds its caller runs and
\* their workers.
SpecEarliest == Init /\ [][NextEarliest]_vars

\* The EndPoints values the mutex of a LatencyCheckModifier is followed on.
MutexRuns ==
    { EndPoints("", "", "https://universal.foobar.com", "https://us-east.foobar.com",
                "", "https://fallback.foobar.com", ""),
      EndPoints("", "", "", "https://us-east.foobar.com", ":",
                "https://fallback.foobar.com", "") }

NextMutex ==
    \/ \E e \in MutexRuns : Mu_NewLatencyCheckerModifier(e)
    \/ Mu_Tick
    \/ \E i \in Workers : Mu_headRequest(i)
    \/ Mu_Wait
    \/ Mu_Lock
    \/ Mu_Unlock
    \/ \E c \in Callers : Mu_GetEndpoint(c)
    \/ \E c \in Callers : Mu_RLock(c)
    \/ \E c \in Callers : Mu_Return(c)

\* A LatencyCheckModifier, its rounds and the callers of GetEndpoint, with
\* every operation on l.mu a step of its own.
SpecMutex == Init /\ [][NextMutex]_vars

\* The EndPoints values and AWS_REGION values NewEnvironmentRouter is run on.
RouterInputs ==
    { EndPoints(ap, eu, un, ue, uw, fb, cl) :
        ap \in {"", "://apac.foobar.com", "https://apac.foobar.com"},
        eu \in {"", "eu.foobar.com", "https://eu.foobar.com"},
        un \in {"", "x", "https://universal.foobar.com"},
        ue \in {"", "https://us-east.foobar.com"},
        uw \in {"", ":", "https://us-west.foobar.com"},
        fb \in {"", "fallback.foobar.com", "https://fallback.foobar.com"},
        cl \in {"", "http://foobar.com?region=closest"} }

RouterRegions ==
    {"", "us-east-1", "US-EAST-1", "us-east-2", "Us-East-2", "us-west-1",
     "us-west-2", "ap-south-1", "ap-southeast-1", "  ap-southeast-1",
     "ap-southeast-2", "eu-central-1", "EU-Central-1", "eu-west-1"}

NextRouter ==
    \E e \in RouterInputs, r \in RouterRegions : NewEnvironmentRouter(e, r)

\* The construction of a router alone, on a wide range of inputs.
SpecRouter == Init /\ [][NextRouter]_vars

-----------------------------------------------------------------------------
(* Properties of validate and NewEnvironmentRouter (under SpecRouter) *)

\* The names of the fields of e that are not empty.
Populated(e) == {f \in DOMAIN e : e[f] # ""}

\* NewEnvironmentRouter has returned.
Returned == phase \in {"failed", "router"}

\* C7: when Universal is the only populated field (Fallback is empty),
\* NewEnvironmentRouter succeeds and the Fallback of the router's EndPoints
\* equals Universal.
C7_FallbackFromUniversal ==
    (Returned /\ Populated(input) = {"Universal"}) =>
        /\ err = Nil
        /\ router # NilRouter
        /\ router.EndPoints.Fallback = input.Universal

\* C8: an EndPoints with no populated field makes validate, and so
\* NewEnvironmentRouter, fail with ErrAtLeastOne.
C8_AtLeastOne ==
    (Returned /\ Populated(input) = {}) => (err = ErrAtLeastOne /\ router = NilRouter)

C8_Witness ==
    phase = "failed" /\ Populated(input) = {} /\ err = ErrAtLeastOne

\* C9: an EndPoints with a populated field whose value has no URL scheme makes
\* validate fail with ErrMissingProtocol, whatever the other fields hold and
\* however long the value is.
C9_MissingProtocol ==
    (Returned /\ \E f \in Populated(input) : input[f] \in SchemelessURLs) =>
        err = ErrMissingProtocol

\* Every populated field of e parses with a scheme.
AllWithScheme(e) ==
    \A f \in Populated(e) :
        ~urlParse(e[f]).err /\ urlParse(e[f]).Scheme # ""

\* C10 as stated: populated fields all parse with a scheme, Fallback is empty,
\* and the case `exactly one populated field, Universal' is excluded: validate
\* fails with ErrFallbackUnset.
C10_FallbackUnsetAsStated ==
    (Returned /\ AllWithScheme(input) /\ input.Fallback = ""
              /\ Populated(input) # {"Universal"}) =>
        err = ErrFallbackUnset

\* C10, amended: the same for an EndPoints with at least one populated field
\* (with none, validate fails with ErrAtLeastOne first).
C10_FallbackUnset ==
    (Returned /\ Populated(input) # {} /\ AllWithScheme(input)
              /\ input.Fallback = "" /\ Populated(input) # {"Universal"}) =>
        (err = ErrFallbackUnset /\ router = NilRouter)

C10_Witness ==
    /\ phase = "failed"
    /\ Populated(input) = {"Universal", "ClosestURL"}
    /\ AllWithScheme(input)
    /\ err = ErrFallbackUnset

\* C11: with AWS_REGION us-east-1 or us-east-2 in any letter case and a
\* validated EndPoints whose USEast is populated, the router's ClosestURL and
\* GetRouterURL are the USEast URL, whatever the other fields hold (a
\* ClosestURL given by the caller included).
C11_USEastOverride ==
    (phase = "router" /\ ToLower(env) \in {"us-east-1", "us-east-2"}
                      /\ input.USEast # "") =>
        /\ router.EndPoints.ClosestURL = input.USEast
        /\ GetRouterURL = input.USEast

C11_Witness ==
    /\ phase = "router"
    /\ env = "Us-East-2"
    /\ input.ClosestURL # ""
    /\ input.Universal # ""
    /\ input.ClosestURL # input.USEast
    /\ GetRouterURL = input.USEast

\* C12: on a validated EndPoints, AWS_REGION ap-south-1, ap-southeast-1 or
\* ap-southeast-2 with AsiaPacific populated makes ClosestURL the AsiaPacific
\* URL, eu-central-1 with Europe populated the Europe URL, and us-west-1 or
\* us-west-2 with USWest populated the USWest URL.
C12_RegionFamilies ==
    phase = "router" =>
        /\ (env \in {"ap-south-1", "ap-southeast-1", "ap-southeast-2"}
                /\ input.AsiaPacific # "") =>
              router.EndPoints.ClosestURL = input.AsiaPacific
        /\ (env = "eu-central-1" /\ input.Europe # "") =>
              router.EndPoints.ClosestURL = input.Europe
        /\ (env \in {"us-west-1", "us-west-2"} /\ input.USWest # "") =>
              router.EndPoints.ClosestURL = input.USWest

\* C13: GetRouterURL is ClosestURL when that is not empty, else Universal when
\* that is not empty, else Fallback; so for a region the switch lists whose
\* regional field is empty it is Universal, or Fallback when Universal is
\* empty too (whatever ClosestURL the caller gave).
C13_RouterURLOrder ==
    phase = "router" =>
        LET e == router.EndPoints
            f == regionField(router.AWSRegion)
        IN  /\ GetRouterURL = IF e.ClosestURL # "" THEN e.ClosestURL
                              ELSE IF e.Universal # "" THEN e.Universal
                              ELSE e.Fallback
            /\ (f # "" /\ input[f] = "") =>
                   GetRouterURL = IF input.Universal # "" THEN input.Universal
                                  ELSE input.Fallback

C13_Witness ==
    /\ phase = "router"
    /\ env = "us-east-1"
    /\ input.USEast = ""
    /\ input.ClosestURL # ""
    /\ input.Universal = ""
    /\ input.Fallback # ""
    /\ GetRouterURL = input.Fallback

\* C20: when validate returns an error NewEnvironmentRouter returns a nil
\* router and that error, and when validate succeeds it returns a router and
\* a nil error.
C20_NilRouterOnError ==
    Returned =>
        /\ validate(input) # Nil => (router = NilRouter /\ err = validate(input))
        /\ validate(input) = Nil => (router # NilRouter /\ err = Nil)

C20_Witness ==
    /\ phase = "failed"
    /\ err = ErrURLParse
    /\ router = NilRouter
    /\ input.Fallback \in HttpsURLs
    /\ input.Universal \in HttpsURLs

\* C32: when validate succeeds on an EndPoints, each of its populated fields,
\* a one-character one included, parses as a URL with a scheme.
C32_ValidatedFieldsHaveScheme ==
    (Returned /\ validate(input) = Nil) => AllWithScheme(input)

-----------------------------------------------------------------------------
(* Properties of the LatencyCheckModifier (under Spec) *)

\* A step in which findLowLatencyEndpoint writes its result and returns.
RoundEnds == roundBy # "none" /\ roundBy' = "none"

\* C1: StopPingingEndpoints is idempotent: no call, whenever it is made after
\* construction, panics (or closes a channel twice).
C1_StopIdempotent == panic # "send on closed channel"

\* C2: on a validated EndPoints, GetEndpoint is never empty once the modifier
\* is constructed, whatever rounds and stop calls have happened.
C2_NeverEmpty == phase = "ready" => Len(GetEndpoint) > 0

C2_Witness ==
    /\ phase = "ready"
    /\ last.n >= 2
    /\ ~last.won
    /\ stopCalls >= 1
    /\ GetEndpoint = router.EndPoints.Fallback

\* C3: a round in which some candidate answered StatusOK ends with GetEndpoint
\* equal to the URL of a candidate that answered StatusOK in the least elapsed
\* time of that round, whatever the value before the round.
C3_FastestWins ==
    [][(RoundEnds /\ BestURLs(probe) # {}) => GetEndpoint' \in BestURLs(probe)]_vars

C3_Witness ==
    /\ phase = "ready"
    /\ last.won
    /\ roundBy = "none"
    /\ router.EndPoints.ClosestURL = ""
    /\ GetEndpoint = router.EndPoints.USEast
    /\ router.EndPoints.Universal # ""

\* C4: a round in which no candidate answered StatusOK leaves GetEndpoint as
\* it was before the round, and not empty.
C4_AllFailedKeeps ==
    [][(RoundEnds /\ BestURLs(probe) = {}) =>
           (GetEndpoint' = GetEndpoint /\ GetEndpoint' # "")]_vars

C4_Witness ==
    /\ phase = "ready"
    /\ last.n >= 2
    /\ ~last.won
    /\ roundBy = "none"
    /\ GetEndpoint = router.EndPoints.Universal

\* C17: a LatencyCheckModifier built without WithCustomPingInterval, or with
\* an interval of 0, is constructed without a panic, runs the one round of
\* its constructor, and never has a ticker or a round of the goroutine.
C17_StaticWithoutInterval ==
    (phase \in {"constructing", "ready"} /\ PingInterval \in {defaultPingInterval, 0}) =>
        /\ panic # "non-positive interval for NewTicker"
        /\ ticker.state = "none"
        /\ roundBy # "bg"

\* The values of the fields of the EndPoints the modifier points to.
FieldValues == {router.EndPoints[f] : f \in DOMAIN router.EndPoints}

\* C21: fastestURL is always empty or the value of a field of the associated
\* EndPoints, whatever the probes met.
C21_FastestIsAField ==
    IF router = NilRouter THEN fastestURL = ""
    ELSE fastestURL \in {""} \cup FieldValues

C21_Witness ==
    /\ phase = "ready"
    /\ last.won
    /\ roundBy = "none"
    /\ router.EndPoints.Universal = "x"
    /\ fastestURL = router.EndPoints.USWest

\* C24: inside a round fastestURL is written only once every worker of the
\* round has terminated; it never changes while one of them is running.
C24_Barrier ==
    [][(roundBy # "none" /\ fastestURL' # fastestURL) =>
          \A i \in Workers : worker[i] = "done"]_vars

C24_Witness ==
    /\ phase = "ready"
    /\ bg = "select"
    /\ last.n = 1
    /\ last.won
    /\ fastestURL # seed(router.EndPoints)
    /\ \A i \in Workers : worker[i] = "idle"

\* A step that starts the workers of a round.
RoundStarts ==
    /\ \A i \in Workers : worker'[i] = "running"
    /\ \E i \in Workers : worker[i] # "running"

\* C25: rounds never overlap: a round starts only when no round is open and
\* no worker of an earlier round is left, and the goroutine does not exist
\* while the constructor runs its round; ticks may arrive during a round.
C25_NoOverlap ==
    /\ [](phase = "constructing" => bg = "none")
    /\ [][RoundStarts => (roundBy = "none" /\ \A i \in Workers : worker[i] = "idle")]_vars

C25_Witness ==
    /\ bg = "round"
    /\ ticker.C = 1
    /\ last.n >= 2
    /\ \E i \in Workers : worker[i] = "running"
    /\ \E i \in Workers : worker[i] = "done"

\* A step in which NewLatencyCheckerModifier returns the modifier.
ConstructorReturns == phase # "ready" /\ phase' = "ready"

\* C26: when NewLatencyCheckerModifier returns, exactly one round has been
\* completed, by the constructor and with the goroutine not yet started, and
\* GetEndpoint already holds its result: the URL of a fastest candidate that
\* answered StatusOK if there is one.
C26_OneRoundAtReturn ==
    [][ConstructorReturns =>
          /\ last.n = 0 /\ last'.n = 1
          /\ roundBy = "ctor" /\ roundBy' = "none"
          /\ bg = "none"
          /\ BestURLs(probe) # {} => GetEndpoint' \in BestURLs(probe)]_vars

C26_Witness ==
    /\ phase = "ready"
    /\ last.n = 1
    /\ last.won
    /\ bg = "select"
    /\ ticker.C = 0
    /\ stopCalls = 0
    /\ router.EndPoints.ClosestURL = router.EndPoints.USEast
    /\ GetEndpoint = router.EndPoints.Universal

\* C27: when the first round finds no candidate answering StatusOK,
\* GetEndpoint at the return of NewLatencyCheckerModifier is ClosestURL if
\* that is not empty, else Universal if not empty, else Fallback.
C27_SeedOrder ==
    [][(ConstructorReturns /\ BestURLs(probe) = {}) =>
          GetEndpoint' = IF router.EndPoints.ClosestURL # ""
                         THEN router.EndPoints.ClosestURL
                         ELSE IF router.EndPoints.Universal # ""
                         THEN router.EndPoints.Universal
                         ELSE router.EndPoints.Fallback]_vars

C27_Witness ==
    /\ phase = "ready"
    /\ last.n = 1
    /\ ~last.won
    /\ router.EndPoints.ClosestURL # ""
    /\ router.EndPoints.Universal # ""
    /\ router.EndPoints.ClosestURL # router.EndPoints.Universal
    /\ GetEndpoint = router.EndPoints.ClosestURL

\* The workers of the round described by p that answered StatusOK in the least
\* elapsed time, and the first of them in the candidate order.
BestWorkers(p) ==
    LET ok == {i \in Workers : p[i].kind = "response" /\ p[i].status = StatusOK}
    IN  {j \in ok : \A k \in ok : p[j].elapsed <= p[k].elapsed}

FirstBest(p) == CHOOSE i \in BestWorkers(p) : \A j \in BestWorkers(p) : i <= j

\* C28: a round with a winner sets fastestURL to the URL of the first
\* candidate, in the order Universal, USEast, USWest, Europe, AsiaPacific,
\* among those with the least elapsed time, whatever the order in which the
\* workers finished.
C28_TieByCandidateOrder ==
    [][(RoundEnds /\ BestWorkers(probe) # {}) =>
          GetEndpoint' = candidateURL(FirstBest(probe))]_vars

\* C29: a worker whose candidate answered with a 2xx status has sent a result
\* with a duration below the one-hour sentinel, and a worker that met a
\* network error or another status has sent the sentinel.
C29_Any2xxIsTimed ==
    \A i \in Workers :
        (worker[i] = "done" /\ probe[i].kind \in {"response", "neterr"}) =>
            \E k \in 1 .. Len(results) :
                /\ results[k].URL = candidateURL(i)
                /\ (results[k].Duration < Hour) <=>
                      (probe[i].kind = "response"
                          /\ probe[i].status >= 200 /\ probe[i].status <= 299)

\* The values of the five fields that take part in a round.
RacedValues == {router.EndPoints[Candidates[i]] : i \in Workers}

\* C30: the Fallback field takes no part in a round: every result a worker
\* sends is for the value of one of Universal, USEast, USWest, Europe,
\* AsiaPacific; a round that changes fastestURL sets it to one of these
\* values; and while GetEndpoint is a Fallback that is none of these values,
\* Fallback was the seed and the last round had no winner.
C30_FallbackNotRaced ==
    /\ [](router # NilRouter =>
            /\ \A k \in 1 .. Len(results) : results[k].URL \in RacedValues
            /\ (/\ phase \in {"constructing", "ready"}
                /\ GetEndpoint = router.EndPoints.Fallback
                /\ router.EndPoints.Fallback \notin RacedValues) =>
                   /\ seed(router.EndPoints) = router.EndPoints.Fallback
                   /\ ~last.won)
    /\ [][(RoundEnds /\ fastestURL' # fastestURL) =>
             fastestURL' \in RacedValues \ {""}]_vars

C30_Witness ==
    /\ phase = "ready"
    /\ last.n = 2
    /\ ~last.won
    /\ roundBy = "none"
    /\ router.EndPoints.Fallback # ""
    /\ router.EndPoints.Fallback \notin RacedValues
    /\ router.EndPoints.USEast # ""
    /\ GetEndpoint = router.EndPoints.Fallback

\* The caller holds a constructed modifier and may call StopPingingEndpoints.
CanCallStop == phase = "ready" /\ panic = "" /\ stopCalls < MaxStops

\* C18: StopPingingEndpoints never blocks: in every state in which the caller
\* can call it the call can take its step at once, and that one step returns
\* (it does not panic) and leaves the goroutine, the ticker and the round as
\* they were.
C18_StopNeverBlocks ==
    /\ [](CanCallStop => ENABLED StopPingingEndpoints)
    /\ [][(stopCalls' # stopCalls) =>
             /\ UNCHANGED <<bg, ticker, roundBy, worker, results, fastestURL>>
             /\ panic' = ""]_vars

\* C19: once a call of StopPingingEndpoints has returned, the goroutine
\* starts no new round (a round in flight may end), a pending tick or not.
C19_NoRoundAfterStop ==
    [][stopCalls >= 1 => ~(roundBy # "bg" /\ roundBy' = "bg")]_vars

\* C35: a call of StopPingingEndpoints leaves fastestURL as it is, and once
\* the goroutine has returned fastestURL never changes again: GetEndpoint
\* keeps the winner of the last round that had one, or the seed.
C35_StopKeepsSelection ==
    /\ [][(stopCalls' # stopCalls) => GetEndpoint' = GetEndpoint]_vars
    /\ [][bg = "exited" => (GetEndpoint' = GetEndpoint /\ roundBy' = "none")]_vars

C35_Witness ==
    /\ bg = "exited"
    /\ stopCalls = 2
    /\ panic = ""
    /\ last.n >= 2
    /\ GetEndpoint # seed(router.EndPoints)
    /\ GetEndpoint = router.EndPoints.USEast

-----------------------------------------------------------------------------
(* Properties of the URL getters and AddRouterModifier (under SpecURL) *)

\* NewEnvironmentRouter has returned a router.
RouterBuilt == phase \in {"router", "constructing", "ready"}

\* C14: once NewEnvironmentRouter has succeeded, GetRouterURL and
\* GetModifierURL are never empty, whatever the region, whether a modifier is
\* installed or not, and whatever the probe rounds met.
C14_URLNeverEmpty ==
    RouterBuilt => (GetRouterURL # "" /\ GetModifierURL # "")

C14_Witness ==
    /\ phase = "ready"
    /\ router.routerModifier = "l"
    /\ router.EndPoints.Fallback = ""
    /\ last.n >= 2
    /\ ~last.won
    /\ GetModifierURL = router.EndPoints.Universal

\* C15: GetModifierURL is the installed modifier's GetEndpoint when a modifier
\* is installed and that value is not empty, and GetRouterURL when no modifier
\* is installed or the modifier's endpoint is empty.
C15_ModifierURL ==
    RouterBuilt =>
        LET m == router.routerModifier
        IN  /\ (m # Nil /\ modifierEndpoint(m) # "") =>
                   GetModifierURL = modifierEndpoint(m)
            /\ (m = Nil \/ modifierEndpoint(m) = "") =>
                   GetModifierURL = GetRouterURL

C15_Witness ==
    /\ phase = "ready"
    /\ router.routerModifier = "l"
    /\ last.won
    /\ GetModifierURL = router.EndPoints.Universal
    /\ GetRouterURL = router.EndPoints.USEast
    /\ GetModifierURL # GetRouterURL

\* C16: every call of AddRouterModifier ends with the router holding the
\* modifier given to the first call, and every call after the first leaves
\* the router as it was.
C16_FirstModifierStays ==
    [][(added' # added) =>
          /\ router'.routerModifier = added'.first
          /\ added.first # Nil => router' = router]_vars

C16_Witness ==
    /\ added.first = "unseeded"
    /\ added.last = "l"
    /\ router.routerModifier = "unseeded"

-----------------------------------------------------------------------------
(* Properties of the NewLatencyChecker revision (under SpecChecker) *)

\* C37: once NewLatencyChecker has returned, GetFastestEndpoint is never the
\* empty string, also with an empty ClosestURL and a first round in which no
\* candidate answered StatusOK.
C37_CheckerNeverEmpty ==
    phase = "ready" => GetFastestEndpoint # ""

-----------------------------------------------------------------------------
(* Properties of the earliest revision (under SpecEarliest) *)

\* C38: a worker releases every lock it takes on each path of headRequest:
\* no read lock is held once its holder has left its read section, so the
\* caller of findLowLatencyEndpoint that stands at l.mu.Lock() gets the mutex
\* and GetURL can be called.
C38_NoLeakedLock ==
    /\ earliest.readers = 0
    /\ (earliest.panic = "" /\ earliest.pos = "reset") => ENABLED Earliest_Lock
    /\ (earliest.panic = "" /\ earliest.pos \notin {"none", "failed"}) =>
          ENABLED Earliest_GetURL

\* C39: no worker sends on a quickestEndpointCh that findLowLatencyEndpoint
\* has closed: no run reaches the panic of a send on a closed channel.
C39_NoSendOnClosed ==
    /\ earliest.panic = ""
    /\ \A r \in 1 .. MaxRounds, i \in Workers :
          earliest.worker[r][i] = "send" => ~earliest.ch[r].closed

-----------------------------------------------------------------------------
(* Properties of l.mu (under SpecMutex) *)

\* A step in which caller c returns from GetEndpoint.
Returns(c) == mu.caller[c].pc = "holding" /\ mu'.caller[c].pc = "idle"

\* C31: the exclusive lock is neither held nor awaited while a probe of the
\* round is outstanding; a reader blocked in RLock is let in by the very next
\* unlock of the writer; and GetEndpoint returns the value fastestURL has
\* before or after that step, never anything else.
C31_ReadersNeverWaitOnProbes ==
    /\ []((mu.writer \/ mu.pos = "locking") =>
             \A i \in Workers : mu.worker[i] = "done")
    /\ [](\A c \in Callers : mu.caller[c].pc = "blocked" =>
             (mu.pos \in {"locking", "locked"}
                 /\ (ENABLED Mu_Unlock \/ ENABLED Mu_Lock
                        \/ \E d \in Callers : ENABLED Mu_Return(d))))
    /\ [][\A c \in Callers :
             /\ (mu.caller[c].pc = "blocked" /\ mu.writer /\ ~mu'.writer) =>
                    mu'.caller[c].pc = "holding"
             /\ Returns(c) =>
                    mu'.caller[c].got \in {mu.fastestURL, mu'.fastestURL}]_vars

C31_Witness ==
    /\ mu.writer
    /\ mu.caller["c1"].pc = "blocked"
    /\ mu.caller["c2"].got = mu.EndPoints.USEast
    /\ mu.fastestURL = mu.EndPoints.USEast
    /\ selectFastest(mu.results, mu.fastestURL) = mu.EndPoints.Universal

-----------------------------------------------------------------------------
(* Properties of the preset revision (under SpecPreset) *)

\* C22: in a round of a Latency whose FastestURL was preset, once an attempt
\* on the preset URL has been answered with status 200, no worker for the
\* other candidates is launched and FastestURL stays the URL that was probed,
\* through the end of the round.
C22_PresetKept ==
    (latency.preset /\ latency.ok) =>
        /\ ~latency.launched
        /\ \A w \in Workers : latency.worker[w] = "idle"
        /\ latency.EndPoints.FastestURL = latency.probed

C22_Witness ==
    /\ latency.env = "ap-south-1"
    /\ latency.preset
    /\ latency.ok
    /\ latency.rounds >= 2
    /\ latency.bg = "select"
    /\ latency.input.Universal # ""
    /\ latency.EndPoints.FastestURL = latency.input.AsiaPacific

\* The value the region override leaves in FastestURL for the input of
\* NewLatencyRouter: the regional field of a listed region, else what the
\* caller put there.
OverrideResult ==
    LET f == regionField(ToLower(latency.env))
    IN  IF f # "" THEN latency.input[f] ELSE latency.input.FastestURL

\* C23: a Latency built with PingInterval unset or zero has no goroutine and
\* no ticker and issues no request; GetURL is the result of the region
\* override when that is not empty, else Universal, else Fallback, in every
\* state; and StopPingingEndpoints leaves the stop channel empty.
C23_NoIntervalStatic ==
    (latency.pos = "built" /\ latency.PingInterval = 0) =>
        /\ latency.bg = "none"
        /\ latency.ticker.state = "none"
        /\ ~latency.issued
        /\ latency.stopTicker = 0
        /\ Latency_GetURL = IF OverrideResult # "" THEN OverrideResult
                            ELSE IF latency.input.Universal # ""
                            THEN latency.input.Universal
                            ELSE latency.input.Fallback

C23_Witness ==
    /\ latency.pos = "built"
    /\ latency.PingInterval = 0
    /\ latency.stops >= 2
    /\ latency.env = "US-EAST-1"
    /\ latency.input.USEast = ""
    /\ Latency_GetURL = latency.input.Fallback

-----------------------------------------------------------------------------
(* Liveness of the LatencyCheckModifier (under LiveSpec) *)

\* Nothing of the selector runs: the goroutine has returned, its ticker is
\* stopped, no round is open and no worker is running.
Quiescent ==
    /\ bg = "exited"
    /\ ticker.state = "stopped"
    /\ roundBy = "none"
    /\ \A i \in Workers : worker[i] # "running"

\* C5: once StopPingingEndpoints has been called, the background goroutine
\* eventually returns with its ticker stopped, and from then on nothing of the
\* selector runs, wherever the goroutine was when the stop arrived.
C5_StopTerminates == [](stopCalls >= 1 => <>[]Quiescent)

C5_Witness ==
    /\ stopCalls = 1
    /\ Quiescent
    /\ last.n >= 2
    /\ panic = ""

\* The URL of candidate x ("" before a router exists).
urlOf(x) == IF router = NilRouter THEN "" ELSE candidateURL(x)

\* The round in flight has all its answers, and candidate x answered StatusOK
\* in strictly less time than every other candidate that answered StatusOK.
Favours(x) ==
    (roundBy # "none" /\ \A i \in Workers : worker[i] = "done") =>
        /\ probe[x].kind = "response" /\ probe[x].status = StatusOK
        /\ \A i \in Workers \ {x} :
              (probe[i].kind = "response" /\ probe[i].status = StatusOK) =>
                  probe[i].elapsed > probe[x].elapsed

\* C6: for a constructed modifier that is never stopped, if from some round on
\* candidate x is the strictly fastest to answer StatusOK in every round, then
\* eventually GetEndpoint is x's URL and stays so, whatever earlier rounds
\* selected.  (stopCalls only grows and phase "ready" is never left, so `never
\* stopped' and `constructed' are stated inside the <>[].)
C6_RefreshConverges ==
    \A x \in Workers :
        <>[](stopCalls = 0 /\ phase = "ready" /\ Favours(x)) =>
            <>[](GetEndpoint = urlOf(x))

C6_Witness ==
    /\ phase = "ready"
    /\ stopCalls = 0
    /\ last.n >= 2
    /\ last.won
    /\ roundBy = "none"
    /\ router.EndPoints.ClosestURL = ""
    /\ router.EndPoints.Universal # ""
    /\ GetEndpoint = router.EndPoints.USEast

\* C36: every round ends.  A worker that has returned has signalled the
\* barrier and sent at most one result, on each of its paths (empty field,
\* request not built, network error, status other than StatusOK, success);
\* results never holds more than its capacity of five, so no send blocks; and
\* a round that is open is eventually closed.
C36_RoundTerminates ==
    /\ [](/\ Len(results) <= Len(Candidates)
          /\ Len(results) <= Cardinality({i \in Workers : worker[i] = "done"})
          /\ \A i \in Workers : probe[i].kind # "none" => worker[i] = "done")
    /\ (roundBy # "none") ~> (roundBy = "none")

C36_Witness ==
    /\ roundBy = "bg"
    /\ \A i \in Workers : worker[i] = "done"
    /\ Len(results) = Len(Candidates) - 1
    /\ \E i \in Workers : probe[i].kind = "norequest"
    /\ \E i \in Workers : probe[i].kind = "empty"
    /\ \E i \in Workers : probe[i].kind = "neterr"

====
